---- MODULE Spec2Model ----
(***************************************************************************)
(* Model of the weight-conversion scripts of web-mujoco-gym:               *)
(*   pretrained_models/convert_weights_v2.py  (JSON weight extraction)     *)
(*   pretrained_models/convert_weights.py     (Keras model conversion)     *)
(*   download-pretrained-humanoid.py          (flat JSON dump)             *)
(*                                                                         *)
(* Tensors are records [shape, v]: shape is a sequence of 0, 1 or 2        *)
(* dimensions and v maps every index tuple to an integer.  Floating-point  *)
(* values are abstracted to small integers; tanh and exp are replaced by   *)
(* integer stand-ins (element-wise, saturating resp. positive).  The       *)
(* network widths 376 / 64 / 17 are scaled down to InputDim / HiddenDim /  *)
(* ActionDim.                                                              *)
(***************************************************************************)
EXTENDS Integers, Sequences, FiniteSets, TLC

\* ------------------------------------------------------------------ bounds
\* Scaled-down stand-ins for the widths 376, 64 and 17 of the source.
InputDim == 4
HiddenDim == 3
ActionDim == 2
\* Checkpoints are generated from seeds 0..MaxSeed.
MaxSeed == 1
\* Random draws (torch.randn, the Keras initialiser) range over 0..MaxRand.
MaxRand == 1

\* ----------------------------------------------------------------- tensors
Idx(s) ==
    CASE Len(s) = 0 -> {<<>>}
      [] Len(s) = 1 -> {<<i>> : i \in 1..s[1]}
      [] OTHER -> {<<i, j>> : i \in 1..s[1], j \in 1..s[2]}

Filled(s, x) == [shape |-> s, v |-> [ix \in Idx(s) |-> x]]

Ndim(t) == Len(t.shape)

Reverse(s) == [i \in 1..Len(s) |-> s[Len(s) + 1 - i]]

\* tensor.T / ndarray.T: the axes reversed (a 1-D array is its own transpose).
Transpose(t) ==
    [shape |-> Reverse(t.shape),
     v |-> [ix \in Idx(Reverse(t.shape)) |-> t.v[Reverse(ix)]]]

\* Tensor.numpy().tolist(): the same values as nested lists of the same shape.
ToList(t) == [shape |-> t.shape, v |-> [ix \in DOMAIN t.v |-> t.v[ix]]]

\* Stand-in for tanh: odd, nondecreasing, saturating at -1 and 1.
Tanh(x) == IF x > 1 THEN 1 ELSE IF x < -1 THEN -1 ELSE x

\* Stand-in for exp: positive and increasing on the values used.
Exp(x) == IF x < 0 THEN 1 ELSE x + 2

TanhT(t) == [shape |-> t.shape, v |-> [ix \in DOMAIN t.v |-> Tanh(t.v[ix])]]
ExpT(t) == [shape |-> t.shape, v |-> [ix \in DOMAIN t.v |-> Exp(t.v[ix])]]

NoErr == [kind |-> "none", key |-> "", shapes |-> <<>>]
Ok(t) == [ok |-> TRUE, t |-> t, err |-> NoErr]
Raise(kind, key, shapes) ==
    [ok |-> FALSE, t |-> Filled(<<>>, 0),
     err |-> [kind |-> kind, key |-> key, shapes |-> shapes]]

\* torch.matmul on operands of 1 or 2 dimensions; RuntimeError when an operand
\* is 0-dimensional or the contracted widths differ.
MatMul(a, b) ==
    IF Ndim(a) = 0 \/ Ndim(b) = 0 \/ a.shape[Ndim(a)] # b.shape[1]
    THEN Raise("RuntimeError", "", <<a.shape, b.shape>>)
    ELSE LET K == b.shape[1]
             s == (IF Ndim(a) = 2 THEN <<a.shape[1]>> ELSE <<>>)
                  \o (IF Ndim(b) = 2 THEN <<b.shape[2]>> ELSE <<>>)
             AIx(ix, k) == IF Ndim(a) = 2 THEN <<ix[1], k>> ELSE <<k>>
             BIx(ix, k) == IF Ndim(b) = 2 THEN <<k, ix[Len(ix)]>> ELSE <<k>>
         IN  Ok([shape |-> s,
                 v |-> [ix \in Idx(s) |->
                     LET S[k \in 0..K] ==
                             IF k = 0 THEN 0
                             ELSE a.v[AIx(ix, k)] * b.v[BIx(ix, k)] + S[k - 1]
                     IN  S[K]]])

\* Broadcasting of two shapes, aligned at the last axis.
Pad(s, n) == [i \in 1..n |-> IF i <= n - Len(s) THEN 1 ELSE s[i - (n - Len(s))]]
MaxLen(s1, s2) == IF Len(s1) > Len(s2) THEN Len(s1) ELSE Len(s2)
Broadcastable(s1, s2) ==
    LET n == MaxLen(s1, s2)
    IN  \A i \in 1..n :
            Pad(s1, n)[i] = Pad(s2, n)[i] \/ Pad(s1, n)[i] = 1 \/ Pad(s2, n)[i] = 1
BroadcastShape(s1, s2) ==
    LET n == MaxLen(s1, s2)
    IN  [i \in 1..n |-> IF Pad(s1, n)[i] = 1 THEN Pad(s2, n)[i] ELSE Pad(s1, n)[i]]
Proj(ix, s) ==
    [i \in 1..Len(s) |-> IF s[i] = 1 THEN 1 ELSE ix[i + Len(ix) - Len(s)]]

\* Element-wise a + b and a * b with broadcasting; RuntimeError otherwise.
Add(a, b) ==
    IF ~Broadcastable(a.shape, b.shape)
    THEN Raise("RuntimeError", "", <<a.shape, b.shape>>)
    ELSE Ok([shape |-> BroadcastShape(a.shape, b.shape),
             v |-> [ix \in Idx(BroadcastShape(a.shape, b.shape)) |->
                       a.v[Proj(ix, a.shape)] + b.v[Proj(ix, b.shape)]]])
Mul(a, b) ==
    IF ~Broadcastable(a.shape, b.shape)
    THEN Raise("RuntimeError", "", <<a.shape, b.shape>>)
    ELSE Ok([shape |-> BroadcastShape(a.shape, b.shape),
             v |-> [ix \in Idx(BroadcastShape(a.shape, b.shape)) |->
                       a.v[Proj(ix, a.shape)] * b.v[Proj(ix, b.shape)]]])

\* ------------------------------------------------------------- state dicts
\* A state_dict is an ordered mapping: a sequence of <<key, tensor>> pairs.
Has(sd, k) == \E i \in 1..Len(sd) : sd[i][1] = k
Get(sd, k) == sd[CHOOSE i \in 1..Len(sd) : sd[i][1] = k][2]
\* state_dict[k]: KeyError naming k when k is absent.
Lookup(sd, k) == IF Has(sd, k) THEN Ok(Get(sd, k)) ELSE Raise("KeyError", k, <<>>)

ActorKeys == <<"actor_mean.0.weight", "actor_mean.0.bias",
               "actor_mean.2.weight", "actor_mean.2.bias",
               "actor_mean.4.weight", "actor_mean.4.bias">>
CriticKeys == <<"critic.0.weight", "critic.0.bias",
                "critic.2.weight", "critic.2.bias",
                "critic.4.weight", "critic.4.bias">>
LogstdKey == "actor_logstd"

\* ------------------------------------------------- convert_weights_v2.py
\* torch.matmul(h, state_dict[wk].T) + state_dict[bk], in evaluation order.
TorchLinear(h, sd, wk, bk) ==
    LET w == Lookup(sd, wk)
    IN  IF ~w.ok THEN w
        ELSE LET m == MatMul(h, Transpose(w.t))
             IN  IF ~m.ok THEN m
                 ELSE LET b == Lookup(sd, bk)
                      IN  IF ~b.ok THEN b ELSE Add(m.t, b.t)

\* The manual forward pass of test_weights over the source (out, in) layout:
\* tanh on the two hidden layers, no activation on the last.
TorchForward(sd, x, keys) ==
    LET l1 == TorchLinear(x, sd, keys[1], keys[2])
    IN  IF ~l1.ok THEN l1
        ELSE LET l2 == TorchLinear(TanhT(l1.t), sd, keys[3], keys[4])
             IN  IF ~l2.ok THEN l2
                 ELSE TorchLinear(TanhT(l2.t), sd, keys[5], keys[6])

\* Small pseudo-random tensors: the values depend on the seed c and the index.
Code(ix) == IF Len(ix) = 0 THEN 0 ELSE IF Len(ix) = 1 THEN ix[1] ELSE ix[1] + 2 * ix[2]
Gen(s, c) == [shape |-> s, v |-> [ix \in Idx(s) |-> ((c + Code(ix)) % 3) - 1]]

\* torch.randn(1, 376) and torch.randn_like(t) for the random draw r.
TestInput(r) == Gen(<<1, InputDim>>, r)
RandnLike(t, r) == Gen(t.shape, r + 1)

\* t[0][:5] needs two dimensions, t[0] needs one: IndexError otherwise.
IndexErr(t, need) ==
    IF Ndim(t) < need THEN Raise("IndexError", "", <<t.shape>>) ELSE Ok(t)

\* test_weights(state_dict) for the draws rx (test input) and rn (noise): the
\* first exception in program order, or the sampled action it prints.
TestWeights(sd, rx, rn) ==
    LET a == TorchForward(sd, TestInput(rx), ActorKeys)
    IN  IF ~a.ok THEN a
        ELSE IF Ndim(a.t) < 2 THEN IndexErr(a.t, 2)
        ELSE LET c == TorchForward(sd, TestInput(rx), CriticKeys)
             IN  IF ~c.ok THEN c
                 ELSE IF Ndim(c.t) < 1 THEN IndexErr(c.t, 1)
                 ELSE LET ls == Lookup(sd, LogstdKey)
                      IN  IF ~ls.ok THEN ls
                          ELSE LET sn == Mul(ExpT(ls.t), RandnLike(a.t, rn))
                               IN  IF ~sn.ok THEN sn
                                   ELSE LET sa == Add(a.t, sn.t)
                                        IN  IF ~sa.ok THEN sa
                                            ELSE IF Ndim(ls.t) < 2
                                                 THEN IndexErr(ls.t, 2)
                                            ELSE sa

\* The output names of the six arrays of a network, in the order written.
LayerNames == <<"dense_1_kernel", "dense_1_bias", "dense_2_kernel",
                "dense_2_bias", "output_kernel", "output_bias">>
IsWeight(i) == i % 2 = 1

DocOk(d) == [ok |-> TRUE, doc |-> d, err |-> NoErr]
DocRaise(kind, key) ==
    [ok |-> FALSE, doc |-> <<>>, err |-> [kind |-> kind, key |-> key, shapes |-> <<>>]]

\* One entry of actor_weights / critic_weights: weights transposed, biases as is.
BadLayerValue(sd, keys, i) == ToList(Get(sd, keys[i]))
LayerValue(sd, keys, i) ==
    IF IsWeight(i) THEN ToList(Transpose(Get(sd, keys[i])))
    ELSE ToList(Get(sd, keys[i]))

\* The dict built for one network: KeyError at the first key that is absent.
NetWeights(sd, keys) ==
    IF \E i \in 1..6 : ~Has(sd, keys[i])
    THEN DocRaise("KeyError",
                  keys[CHOOSE i \in 1..6 : /\ ~Has(sd, keys[i])
                                           /\ \A j \in 1..(i - 1) : Has(sd, keys[j])])
    ELSE DocOk([i \in 1..6 |-> <<LayerNames[i], LayerValue(sd, keys, i)>>])

\* actor_logstd = {'shape': ..., 'values': ...}
BadLogstdDoc(sd) ==
    IF ~Has(sd, LogstdKey) THEN DocRaise("KeyError", LogstdKey)
    ELSE DocOk(<< <<"shape", Reverse(Get(sd, LogstdKey).shape)>>,
                  <<"values", ToList(Transpose(Get(sd, LogstdKey)))>> >>)
LogstdDoc(sd) ==
    IF ~Has(sd, LogstdKey) THEN DocRaise("KeyError", LogstdKey)
    ELSE DocOk(<< <<"shape", Get(sd, LogstdKey).shape>>,
                  <<"values", ToList(Get(sd, LogstdKey))>> >>)

\* model_info of extract_weights_to_json: literals, whatever the checkpoint.
ModelInfoV2 ==
    << <<"input_dim", InputDim>>, <<"action_dim", ActionDim>>,
       <<"hidden_dim", HiddenDim>>, <<"architecture", "PPO">>,
       <<"source", "CleanRL Humanoid-v4">>,
       <<"actor_layers", <<InputDim, HiddenDim, HiddenDim, ActionDim>> >>,
       <<"critic_layers", <<InputDim, HiddenDim, HiddenDim, 1>> >>,
       <<"activation", "tanh">>, <<"format", "json_weights">> >>

\* ---------------------------------------------------- convert_weights.py
\* The names Keras gives the six variables of a network, in weight_mapping order.
TfNames(net) ==
    IF net = "actor"
    THEN <<"actor_dense_1/kernel:0", "actor_dense_1/bias:0",
           "actor_dense_2/kernel:0", "actor_dense_2/bias:0",
           "actor_mean/kernel:0", "actor_mean/bias:0">>
    ELSE <<"critic_dense_1/kernel:0", "critic_dense_1/bias:0",
           "critic_dense_2/kernel:0", "critic_dense_2/bias:0",
           "critic_value/kernel:0", "critic_value/bias:0">>

\* The variable shapes create_tfjs_model fixes: kernels (in, out), biases (out,).
KerasShapes(net) ==
    LET out == IF net = "actor" THEN ActionDim ELSE 1
    IN  <<<<InputDim, HiddenDim>>, <<HiddenDim>>, <<HiddenDim, HiddenDim>>,
          <<HiddenDim>>, <<HiddenDim, out>>, <<out>>>>

\* A freshly built Keras network: random kernels (draw r), zero biases.
KerasInit(net, r) ==
    [i \in 1..6 |-> <<TfNames(net)[i],
                      IF IsWeight(i) THEN Gen(KerasShapes(net)[i], r + i)
                      ELSE Filled(KerasShapes(net)[i], 0)>>]

\* The array convert_weights assigns for source key i: numpy(), and .T for a weight.
Converted(sd, keys, i) ==
    IF IsWeight(i) THEN Transpose(Get(sd, keys[i])) ELSE Get(sd, keys[i])

\* One loop of convert_weights over a network: a key absent from the state_dict
\* is skipped; weight.assign raises ValueError when the shapes differ.
ConvertNet(sd, keys, m) ==
    LET Bad(i) == Has(sd, keys[i]) /\ Converted(sd, keys, i).shape # m[i][2].shape
    IN  IF \E i \in 1..6 : Bad(i)
        THEN LET i == CHOOSE i \in 1..6 : Bad(i) /\ \A j \in 1..(i - 1) : ~Bad(j)
             IN  [ok |-> FALSE, doc |-> <<>>,
                  err |-> [kind |-> "ValueError", key |-> m[i][1],
                           shapes |-> <<m[i][2].shape, Converted(sd, keys, i).shape>>]]
        ELSE DocOk([i \in 1..6 |->
                 IF Has(sd, keys[i]) THEN <<m[i][1], Converted(sd, keys, i)>> ELSE m[i]])

\* (variant: tanh on the output layer as well)
KerasForwardTanhOut(m, x) ==
    LET D(h, i) == Add(MatMul(h, m[i][2]).t, m[i + 1][2]).t
    IN  TanhT(D(TanhT(D(TanhT(D(x, 1)), 3)), 5))

\* The Keras forward pass of a network built by create_tfjs_model:
\* Dense(tanh), Dense(tanh), Dense(None), each h . kernel + bias.
KerasForward(m, x) ==
    LET D(h, i) == Add(MatMul(h, m[i][2]).t, m[i + 1][2]).t
    IN  D(TanhT(D(TanhT(D(x, 1)), 3)), 5)

\* model_info of save_tfjs_models.
ModelInfoV1 ==
    << <<"input_dim", InputDim>>, <<"action_dim", ActionDim>>,
       <<"hidden_dim", HiddenDim>>, <<"architecture", "PPO">>,
       <<"source", "CleanRL Humanoid-v4">>,
       <<"actor_layers", <<InputDim, HiddenDim, HiddenDim, ActionDim>> >>,
       <<"critic_layers", <<InputDim, HiddenDim, HiddenDim, 1>> >> >>

\* -------------------------------------------- download-pretrained-humanoid.py
\* layer_mapping.get(key, key): only the critic keys and actor_logstd are mapped.
DlName(k) ==
    CASE k = "critic.0.weight" -> "critic_fc1_weight"
      [] k = "critic.0.bias" -> "critic_fc1_bias"
      [] k = "critic.2.weight" -> "critic_fc2_weight"
      [] k = "critic.2.bias" -> "critic_fc2_bias"
      [] k = "critic.4.weight" -> "critic_fc3_weight"
      [] k = "critic.4.bias" -> "critic_fc3_bias"
      [] OTHER -> k

\* weights_json: one entry per item of the state_dict, in the state_dict's order.
DlWeightsDoc(sd) == [i \in 1..Len(sd) |-> <<DlName(sd[i][1]), ToList(sd[i][2])>>]

DlMetadataDoc ==
    << <<"model", "PPO">>, <<"environment", "Humanoid-v4">>,
       <<"state_dim", InputDim>>, <<"action_dim", ActionDim>>,
       <<"source", "CleanRL">> >>

\* ------------------------------------------------------------- checkpoints
\* The inputs: checkpoints in the layout of a CleanRL PPO agent (critic,
\* actor_mean, actor_logstd), and malformed variants of them.
AllKeys == CriticKeys \o ActorKeys \o <<LogstdKey>>

SrcShapes(in, hid, act) ==
    <<<<hid, in>>, <<hid>>, <<hid, hid>>, <<hid>>, <<1, hid>>, <<1>>,
      <<hid, in>>, <<hid>>, <<hid, hid>>, <<hid>>, <<act, hid>>, <<act>>,
      <<1, act>>>>

BaseCkpt(in, hid, act, seed) ==
    [i \in 1..Len(AllKeys) |-> <<AllKeys[i], Gen(SrcShapes(in, hid, act)[i], seed + i)>>]

Std(seed) == BaseCkpt(InputDim, HiddenDim, ActionDim, seed)

Drop(sd, k) == LET Keep(e) == e[1] # k IN SelectSeq(sd, Keep)
Replace(sd, k, t) == [i \in 1..Len(sd) |-> IF sd[i][1] = k THEN <<k, t>> ELSE sd[i]]
Reordered(sd) == Reverse(sd)

AltDims == {1, ActionDim, HiddenDim, InputDim}
AltShapes == {<<d>> : d \in AltDims} \cup {<<d, e>> : d \in AltDims, e \in AltDims}
KeySet == {AllKeys[i] : i \in 1..Len(AllKeys)}

\* A missing model file is the empty sequence.
NoFile == <<>>

WellFormed ==
    {Std(seed) : seed \in 0..MaxSeed}
    \cup {Reordered(Std(seed)) : seed \in 0..MaxSeed}
    \cup {BaseCkpt(InputDim, hid, act, 0) :
              hid \in {HiddenDim, HiddenDim + 1}, act \in {ActionDim, ActionDim + 1}}
Malformed ==
    {Drop(Std(0), k) : k \in KeySet}
    \cup {Replace(Std(0), k, Gen(sh, 0)) : k \in KeySet, sh \in AltShapes}
    \cup {BaseCkpt(InputDim - 1, HiddenDim, ActionDim, 0)}
CkptAll == WellFormed \cup Malformed \cup {NoFile}

\* The checkpoints of the two-process specification.
CkptPar == {Std(0), Std(MaxSeed), Reordered(Std(0)), Drop(Std(0), "critic.2.bias")}

\* ---------------------------------------------------------------- the state
Procs == {1, 2}
Dirs == {"d1", "d2"}
FileNames == {"actor_weights.json", "critic_weights.json", "actor_logstd.json",
              "model_info.json", "actor", "critic",
              "humanoid_ppo_weights.json", "model_metadata.json"}
\* v2_main / v1_main: the main() of convert_weights_v2.py / convert_weights.py;
\* v2_extract: load_pytorch_model then extract_weights_to_json called directly;
\* dl_convert: convert_to_tfjs_format under the try of the download script.
Entries == {"v2_main", "v2_extract", "v1_main", "dl_convert"}

VARIABLES
    ckpt,        \* ckpt[p]: the model file process p reads (NoFile: absent)
    entry,       \* entry[p]: the entry point process p runs ("idle": none)
    outdir,      \* outdir[p]: the output directory of process p
    pc,          \* pc[p]: the position of process p
    state_dict,  \* state_dict[p]: the loaded state_dict
    model,       \* model[p]: the Keras actor and critic models (v1_main)
    logstd,      \* logstd[p]: the actor_logstd convert_weights returned
    sampled,     \* sampled[p]: the sampled action test_weights printed
    err,         \* err[p]: the exception raised in process p
    msgs,        \* msgs[p]: the final messages process p printed
    files        \* files[d][n]: the document in file n of directory d (<<>>: none)

vars == <<ckpt, entry, outdir, pc, state_dict, model, logstd, sampled, err, msgs, files>>

NoModel == [actor |-> <<>>, critic |-> <<>>]
NoLogstd == [some |-> FALSE, t |-> Filled(<<>>, 0)]
EmptyDir == [n \in FileNames |-> <<>>]

InitCommon ==
    /\ state_dict = [p \in Procs |-> <<>>]
    /\ model = [p \in Procs |-> NoModel]
    /\ logstd = [p \in Procs |-> NoLogstd]
    /\ sampled = [p \in Procs |-> Filled(<<>>, 0)]
    /\ err = [p \in Procs |-> NoErr]
    /\ msgs = [p \in Procs |-> <<>>]
    /\ files = [d \in Dirs |-> EmptyDir]

\* One run of one entry point on any checkpoint; process 2 stays idle.
Init ==
    /\ \E c \in CkptAll : ckpt = [p \in Procs |-> IF p = 1 THEN c ELSE NoFile]
    /\ \E e \in Entries : entry = [p \in Procs |-> IF p = 1 THEN e ELSE "idle"]
    /\ outdir = [p \in Procs |-> IF p = 1 THEN "d1" ELSE "d2"]
    /\ pc = [p \in Procs |-> IF p = 1 THEN "load" ELSE "done"]
    /\ InitCommon

\* Two runs of the same entry point, interleaved, on two checkpoints.
InitPar ==
    /\ ckpt \in [Procs -> CkptPar]
    /\ \E e \in Entries : entry = [p \in Procs |-> e]
    /\ \E d \in Dirs : outdir = [p \in Procs |-> IF p = 1 THEN "d1" ELSE d]
    /\ pc = [p \in Procs |-> "load"]
    /\ InitCommon

\* ------------------------------------------------------------------ actions
\* An exception: main() catches it (pc "except"); a direct call lets it
\* propagate to the caller (pc "raised").
Throw(p, e) ==
    /\ err' = [err EXCEPT ![p] = e]
    /\ pc' = [pc EXCEPT ![p] = IF entry[p] = "v2_extract" THEN "raised" ELSE "except"]

\* (variant: one fixed directory instead of output_dir)
WriteFixedDir(p, n, doc) == files' = [files EXCEPT !["d1"][n] = doc]
\* open(os.path.join(output_dir, n), 'w') and json.dump(doc, f)
Write(p, n, doc) == files' = [files EXCEPT ![outdir[p]][n] = doc]

\* (variant: main() goes from loading straight to the extraction)
AfterLoadSkipsTest(e) ==
    CASE e = "v2_main" -> "x_actor"
      [] e = "v2_extract" -> "x_actor"
      [] e = "v1_main" -> "create"
      [] OTHER -> "dl_weights"

AfterLoad(e) ==
    CASE e = "v2_main" -> "test"
      [] e = "v2_extract" -> "x_actor"
      [] e = "v1_main" -> "create"
      [] OTHER -> "dl_weights"

\* load_pytorch_model / torch.load
Load(p) ==
    /\ pc[p] = "load"
    /\ IF ckpt[p] = NoFile
       THEN /\ Throw(p, [kind |-> "FileNotFoundError", key |-> "", shapes |-> <<>>])
            /\ UNCHANGED state_dict
       ELSE /\ state_dict' = [state_dict EXCEPT ![p] = ckpt[p]]
            /\ pc' = [pc EXCEPT ![p] = AfterLoad(entry[p])]
            /\ UNCHANGED err
    /\ UNCHANGED <<ckpt, entry, outdir, model, logstd, sampled, msgs, files>>

\* (variant: the sampled action is stored back into the state_dict)
TestStoresSample(p) ==
    /\ pc[p] = "test"
    /\ \E rx \in 0..MaxRand, rn \in 0..MaxRand :
          LET r == TestWeights(state_dict[p], rx, rn)
          IN  IF r.ok
              THEN /\ sampled' = [sampled EXCEPT ![p] = r.t]
                   /\ state_dict' = [state_dict EXCEPT ![p] =
                          Replace(@, "actor_mean.4.bias", r.t)]
                   /\ pc' = [pc EXCEPT ![p] = "x_actor"]
                   /\ UNCHANGED err
              ELSE /\ Throw(p, r.err)
                   /\ UNCHANGED <<sampled, state_dict>>
    /\ UNCHANGED <<ckpt, entry, outdir, model, logstd, msgs, files>>

\* test_weights(state_dict)
Test(p) ==
    /\ pc[p] = "test"
    /\ \E rx \in 0..MaxRand, rn \in 0..MaxRand :
          LET r == TestWeights(state_dict[p], rx, rn)
          IN  IF r.ok
              THEN /\ sampled' = [sampled EXCEPT ![p] = r.t]
                   /\ pc' = [pc EXCEPT ![p] = "x_actor"]
                   /\ UNCHANGED err
              ELSE /\ Throw(p, r.err)
                   /\ UNCHANGED sampled
    /\ UNCHANGED <<ckpt, entry, outdir, state_dict, model, logstd, msgs, files>>

\* One document of extract_weights_to_json: built, then dumped to its file.
ExtractStep(p, at, r, n, next) ==
    /\ pc[p] = at
    /\ IF r.ok
       THEN /\ Write(p, n, r.doc)
            /\ pc' = [pc EXCEPT ![p] = next]
            /\ UNCHANGED err
       ELSE /\ Throw(p, r.err)
            /\ UNCHANGED files
    /\ UNCHANGED <<ckpt, entry, outdir, state_dict, model, logstd, sampled, msgs>>

ExtractActor(p) ==
    ExtractStep(p, "x_actor", NetWeights(state_dict[p], ActorKeys),
                "actor_weights.json", "x_critic")
ExtractCritic(p) ==
    ExtractStep(p, "x_critic", NetWeights(state_dict[p], CriticKeys),
                "critic_weights.json", "x_logstd")
ExtractLogstd(p) ==
    ExtractStep(p, "x_logstd", LogstdDoc(state_dict[p]), "actor_logstd.json", "x_info")
ExtractInfo(p) ==
    ExtractStep(p, "x_info", DocOk(ModelInfoV2), "model_info.json",
                IF entry[p] = "v2_extract" THEN "returned" ELSE "report")

\* create_tfjs_model
Create(p) ==
    /\ pc[p] = "create"
    /\ \E r \in 0..MaxRand :
          model' = [model EXCEPT ![p] = [actor |-> KerasInit("actor", r),
                                         critic |-> KerasInit("critic", r)]]
    /\ pc' = [pc EXCEPT ![p] = "convert"]
    /\ UNCHANGED <<ckpt, entry, outdir, state_dict, logstd, sampled, err, msgs, files>>

\* convert_weights: the actor loop, the critic loop, then actor_logstd.
Convert(p) ==
    /\ pc[p] = "convert"
    /\ LET a == ConvertNet(state_dict[p], ActorKeys, model[p].actor)
           c == ConvertNet(state_dict[p], CriticKeys, model[p].critic)
       IN  IF ~a.ok THEN Throw(p, a.err) /\ UNCHANGED <<model, logstd>>
           ELSE IF ~c.ok THEN Throw(p, c.err) /\ UNCHANGED <<model, logstd>>
           ELSE /\ model' = [model EXCEPT ![p] = [actor |-> a.doc, critic |-> c.doc]]
                /\ logstd' = [logstd EXCEPT ![p] =
                       IF Has(state_dict[p], LogstdKey)
                       THEN [some |-> TRUE, t |-> Get(state_dict[p], LogstdKey)]
                       ELSE NoLogstd]
                /\ pc' = [pc EXCEPT ![p] = "v1_test"]
                /\ UNCHANGED err
    /\ UNCHANGED <<ckpt, entry, outdir, state_dict, sampled, msgs, files>>

\* The test of the converted models in convert_weights.main: prints only.
TestModels(p) ==
    /\ pc[p] = "v1_test"
    /\ pc' = [pc EXCEPT ![p] = "s_actor"]
    /\ UNCHANGED <<ckpt, entry, outdir, state_dict, model, logstd, sampled, err, msgs, files>>

SaveStep(p, at, n, doc, next) ==
    /\ pc[p] = at
    /\ Write(p, n, doc)
    /\ pc' = [pc EXCEPT ![p] = next]
    /\ UNCHANGED <<ckpt, entry, outdir, state_dict, model, logstd, sampled, err, msgs>>

\* save_tfjs_models
SaveActor(p) == SaveStep(p, "s_actor", "actor", model[p].actor, "s_critic")
SaveCritic(p) == SaveStep(p, "s_critic", "critic", model[p].critic, "s_logstd")
SaveLogstd(p) ==
    SaveStep(p, "s_logstd", "actor_logstd.json",
             IF logstd[p].some
             THEN << <<"shape", logstd[p].t.shape>>, <<"values", ToList(logstd[p].t)>> >>
             ELSE files[outdir[p]]["actor_logstd.json"],
             "s_info")
SaveInfo(p) == SaveStep(p, "s_info", "model_info.json", ModelInfoV1, "report")

\* convert_to_tfjs_format
DlWeights(p) ==
    SaveStep(p, "dl_weights", "humanoid_ppo_weights.json",
             DlWeightsDoc(state_dict[p]), "dl_meta")
DlMetadata(p) ==
    SaveStep(p, "dl_meta", "model_metadata.json", DlMetadataDoc, "returned")

\* The success message of main().
Report(p) ==
    /\ pc[p] = "report"
    /\ msgs' = [msgs EXCEPT ![p] = Append(@, "success")]
    /\ pc' = [pc EXCEPT ![p] = "done"]
    /\ UNCHANGED <<ckpt, entry, outdir, state_dict, model, logstd, sampled, err, files>>

\* The except clause: the failure message, and a normal return.
Except(p) ==
    /\ pc[p] = "except"
    /\ msgs' = [msgs EXCEPT ![p] = Append(@, "failed")]
    /\ pc' = [pc EXCEPT ![p] = "done"]
    /\ UNCHANGED <<ckpt, entry, outdir, state_dict, model, logstd, sampled, err, files>>

Next ==
    \E p \in Procs :
        \/ Load(p)
        \/ Test(p)
        \/ ExtractActor(p)
        \/ ExtractCritic(p)
        \/ ExtractLogstd(p)
        \/ ExtractInfo(p)
        \/ Create(p)
        \/ Convert(p)
        \/ TestModels(p)
        \/ SaveActor(p)
        \/ SaveCritic(p)
        \/ SaveLogstd(p)
        \/ SaveInfo(p)
        \/ DlWeights(p)
        \/ DlMetadata(p)
        \/ Report(p)
        \/ Except(p)

Spec == Init /\ [][Next]_vars
SpecPar == InitPar /\ [][Next]_vars

\* ------------------------------------------------------------------ helpers
Terminal(p) == pc[p] \in {"done", "raised", "returned"}
Succeeded(p) == Terminal(p) /\ err[p].kind = "none"
Out(p) == files[outdir[p]]
V2(p) == entry[p] \in {"v2_main", "v2_extract"}
HasAll(sd) == \A k \in KeySet : Has(sd, k)

\* k is the transpose of w: the shape reversed and k[i][j] = w[j][i].
IsTransposeOf(k, w) ==
    /\ k.shape = Reverse(w.shape)
    /\ DOMAIN k.v = Idx(k.shape)
    /\ \A ix \in Idx(w.shape) : k.v[Reverse(ix)] = w.v[ix]
\* b has the shape of a and the same value at every index.
SameArray(b, a) ==
    /\ b.shape = a.shape
    /\ DOMAIN b.v = Idx(a.shape)
    /\ \A ix \in Idx(a.shape) : b.v[ix] = a.v[ix]

\* The arrays of document doc are those of source keys `keys`, weights transposed.
LayersConverted(doc, sd, keys) ==
    \A i \in 1..6 :
        Has(sd, keys[i]) =>
            IF IsWeight(i) THEN IsTransposeOf(doc[i][2], Get(sd, keys[i]))
            ELSE SameArray(doc[i][2], Get(sd, keys[i]))

\* C1: every kernel written (actor_weights.json / critic_weights.json, and the
\* saved Keras models actor / critic) is the transpose of its source weight and
\* every bias equals its source bias, element for element.
C1_KernelIsTranspose ==
    \A p \in Procs :
        /\ V2(p) /\ Out(p)["actor_weights.json"] # <<>> =>
               LayersConverted(Out(p)["actor_weights.json"], ckpt[p], ActorKeys)
        /\ V2(p) /\ Out(p)["critic_weights.json"] # <<>> =>
               LayersConverted(Out(p)["critic_weights.json"], ckpt[p], CriticKeys)
        /\ entry[p] = "v1_main" /\ Out(p)["actor"] # <<>> =>
               LayersConverted(Out(p)["actor"], ckpt[p], ActorKeys)
        /\ entry[p] = "v1_main" /\ Out(p)["critic"] # <<>> =>
               LayersConverted(Out(p)["critic"], ckpt[p], CriticKeys)

\* A run of main() of convert_weights_v2 has written both weight files from a
\* checkpoint whose first weight is a non-square (HiddenDim, InputDim) array.
C1_Witness ==
    /\ entry[1] = "v2_main" /\ pc[1] = "done"
    /\ ckpt[1] = Std(1)
    /\ Out(1)["actor_weights.json"] # <<>>
    /\ Out(1)["critic_weights.json"] # <<>>
    /\ Out(1)["actor_weights.json"][1][2].shape = <<InputDim, HiddenDim>>

\* The checkpoint has every required key except actor_mean.4.bias.
LacksOnlyOutputBias(sd) ==
    /\ sd # NoFile
    /\ \A k \in KeySet : Has(sd, k) <=> k # "actor_mean.4.bias"

\* C2: a run on a checkpoint that lacks only actor_mean.4.bias ends in a
\* missing-key error (Python's KeyError) naming that key, with no file written.
C2_MissingKeyFails ==
    \A p \in Procs :
        /\ entry[p] \in {"v2_main", "v2_extract", "v1_main"}
        /\ Terminal(p)
        /\ LacksOnlyOutputBias(ckpt[p])
        => /\ err[p].kind = "KeyError"
           /\ err[p].key = "actor_mean.4.bias"
           /\ Out(p) = EmptyDir

\* C3: a run that fails on an absent key has written none of its output files.
C3_NoPartialOutput ==
    \A p \in Procs :
        /\ V2(p) \/ entry[p] = "v1_main"
        /\ Terminal(p)
        /\ err[p].kind = "KeyError"
        => Out(p) = EmptyDir

\* The shape invariants of a network in the source layout: each weight 2-D, each
\* bias 1-D of the weight's first axis, each input width the previous output width.
NetShapesOk(sd, keys) ==
    \A l \in {1, 3, 5} :
        LET w == Get(sd, keys[l])
            b == Get(sd, keys[l + 1])
        IN  /\ Ndim(w) = 2
            /\ Ndim(b) = 1
            /\ b.shape[1] = w.shape[1]
            /\ IF l = 1 THEN w.shape[2] = InputDim
               ELSE /\ Ndim(Get(sd, keys[l - 2])) = 2
                    /\ w.shape[2] = Get(sd, keys[l - 2]).shape[1]
ShapeViolation(sd) ==
    HasAll(sd) /\ ~(NetShapesOk(sd, ActorKeys) /\ NetShapesOk(sd, CriticKeys))

\* C4: a run of main() on a checkpoint that violates a shape invariant fails
\* (whatever the class of the error it reports) and writes no bundle.
C4_ShapeViolationFails ==
    \A p \in Procs :
        /\ entry[p] \in {"v2_main", "v1_main"}
        /\ Terminal(p)
        /\ ShapeViolation(ckpt[p])
        => /\ err[p].kind # "none"
           /\ Out(p) = EmptyDir

\* Two state_dicts bind the same keys to the same arrays.
SameBindings(a, b) ==
    /\ {a[i] : i \in 1..Len(a)} = {b[i] : i \in 1..Len(b)}
    /\ Len(a) = Len(b)

\* C5: two successful runs of one entry point on checkpoints with the same
\* bindings, whatever their key orders, write the same documents, with the
\* same entries in the same order.
C5_OrderIndependent ==
    /\ Succeeded(1) /\ Succeeded(2)
    /\ outdir[1] # outdir[2]
    /\ SameBindings(ckpt[1], ckpt[2])
    => files["d1"] = files["d2"]

\* The chaining invariant of a written network: kernel columns = bias length,
\* consecutive kernels chain, and the last kernel has `out` columns.
ChainOk(doc, out) ==
    /\ \A l \in {1, 3, 5} :
           /\ Len(doc[l][2].shape) = 2
           /\ Len(doc[l + 1][2].shape) = 1
           /\ doc[l][2].shape[2] = doc[l + 1][2].shape[1]
    /\ doc[1][2].shape[2] = doc[3][2].shape[1]
    /\ doc[3][2].shape[2] = doc[5][2].shape[1]
    /\ doc[5][2].shape[2] = out

\* C6: every weight file main() of convert_weights_v2 writes satisfies the
\* chaining invariant, ending in ActionDim columns (actor) or 1 (critic).
C6_ChainingInvariant ==
    \A p \in Procs :
        entry[p] = "v2_main" =>
            /\ Out(p)["actor_weights.json"] # <<>> =>
                   ChainOk(Out(p)["actor_weights.json"], ActionDim)
            /\ Out(p)["critic_weights.json"] # <<>> =>
                   ChainOk(Out(p)["critic_weights.json"], 1)

\* The input vectors the forward passes are compared on.
Inputs == {Gen(<<1, InputDim>>, c) : c \in 0..(MaxRand + 1)}
ShapesOk(sd) == HasAll(sd) /\ NetShapesOk(sd, ActorKeys) /\ NetShapesOk(sd, CriticKeys)

\* C7: on every input, the forward pass over the converted network (h . kernel
\* + bias, tanh on all layers but the last) equals the forward pass over the
\* checkpoint in the source layout, for the actor and for the critic; both for
\* the Keras models convert_weights.py saves and the files of convert_weights_v2.
C7_ForwardPassEquivalent ==
    \A p \in Procs : \A x \in Inputs :
        /\ entry[p] = "v1_main" /\ HasAll(ckpt[p]) /\ Out(p)["actor"] # <<>> =>
               KerasForward(Out(p)["actor"], x) = TorchForward(ckpt[p], x, ActorKeys).t
        /\ entry[p] = "v1_main" /\ HasAll(ckpt[p]) /\ Out(p)["critic"] # <<>> =>
               KerasForward(Out(p)["critic"], x) = TorchForward(ckpt[p], x, CriticKeys).t
        /\ V2(p) /\ ShapesOk(ckpt[p]) /\ Out(p)["actor_weights.json"] # <<>> =>
               KerasForward(Out(p)["actor_weights.json"], x)
                   = TorchForward(ckpt[p], x, ActorKeys).t
        /\ V2(p) /\ ShapesOk(ckpt[p]) /\ Out(p)["critic_weights.json"] # <<>> =>
               KerasForward(Out(p)["critic_weights.json"], x)
                   = TorchForward(ckpt[p], x, CriticKeys).t

\* convert_weights.main has saved both models of a complete checkpoint, and the
\* actor's output on some input lies outside the range of tanh.
C7_Witness ==
    /\ entry[1] = "v1_main" /\ pc[1] = "done" /\ HasAll(ckpt[1])
    /\ Out(1)["actor"] # <<>> /\ Out(1)["critic"] # <<>>
    /\ \E x \in Inputs :
           LET y == KerasForward(Out(1)["actor"], x)
           IN  /\ y.shape = <<1, ActionDim>>
               /\ \E ix \in Idx(y.shape) : y.v[ix] > 1 \/ y.v[ix] < -1

DocNames(doc) == {doc[i][1] : i \in 1..Len(doc)}

\* C8: the actor_logstd document holds the shape and every value of the
\* checkpoint's actor_logstd unchanged, as a document of its own: no entry of
\* the actor or critic weights is named actor_logstd.
C8_LogstdPassThrough ==
    \A p \in Procs :
        (V2(p) \/ entry[p] = "v1_main") =>
            /\ Out(p)["actor_logstd.json"] # <<>> =>
                   /\ Has(ckpt[p], LogstdKey)
                   /\ Out(p)["actor_logstd.json"][1]
                          = <<"shape", Get(ckpt[p], LogstdKey).shape>>
                   /\ Out(p)["actor_logstd.json"][2][1] = "values"
                   /\ SameArray(Out(p)["actor_logstd.json"][2][2], Get(ckpt[p], LogstdKey))
            /\ \A n \in {"actor_weights.json", "critic_weights.json", "actor", "critic"} :
                   LogstdKey \notin DocNames(Out(p)[n])

\* extract_weights_to_json has written actor_logstd.json from a (1, ActionDim)
\* vector, after both weight files.
C8_Witness ==
    /\ V2(1) /\ Terminal(1)
    /\ Out(1)["actor_weights.json"] # <<>>
    /\ Out(1)["actor_logstd.json"] # <<>>
    /\ Get(ckpt[1], LogstdKey).shape = <<1, ActionDim>>

\* What one run of a convert_weights_v2 entry point on state_dict sd leaves in
\* an empty directory when it runs alone.
SoloV2(e, sd) ==
    LET a == NetWeights(sd, ActorKeys)
        c == NetWeights(sd, CriticKeys)
        l == LogstdDoc(sd)
        go == sd # NoFile /\ (e = "v2_main" => TestWeights(sd, 0, 0).ok)
    IN  [n \in FileNames |->
            CASE n = "actor_weights.json" -> IF go /\ a.ok THEN a.doc ELSE <<>>
              [] n = "critic_weights.json" -> IF go /\ a.ok /\ c.ok THEN c.doc ELSE <<>>
              [] n = "actor_logstd.json" ->
                     IF go /\ a.ok /\ c.ok /\ l.ok THEN l.doc ELSE <<>>
              [] n = "model_info.json" ->
                     IF go /\ a.ok /\ c.ok /\ l.ok THEN ModelInfoV2 ELSE <<>>
              [] OTHER -> <<>>]

\* A single run leaves exactly SoloV2 (checked under Spec).
SoloV2Agrees ==
    \A p \in Procs : V2(p) /\ Terminal(p) => Out(p) = SoloV2(entry[p], ckpt[p])

Finishes(p) == ~Terminal(p) /\ Terminal(p)'

\* C9 as stated: whenever one of two interleaved conversions ends successfully,
\* its output directory holds what it holds after a run alone.
C9_ParallelSameAsAlone ==
    [][\A p \in Procs :
          V2(p) /\ Finishes(p) /\ err'[p].kind = "none" =>
              files'[outdir[p]] = SoloV2(entry[p], ckpt[p])]_vars

\* C9 amended: when the two conversions write to different directories, each
\* one's directory holds, when it ends, what it holds after a run alone, and
\* no step changes a checkpoint or a loaded state_dict.
C9_ParallelDistinctDirs ==
    [][/\ \A p \in Procs :
              V2(p) /\ Finishes(p) /\ outdir[1] # outdir[2] =>
                  files'[outdir[p]] = SoloV2(entry[p], ckpt[p])
       /\ ckpt' = ckpt
       /\ \A p \in Procs : state_dict'[p] \in {state_dict[p], ckpt[p]}]_vars

\* Two interleaved conversions of different checkpoints into different
\* directories have both ended, each leaving all its documents.
C9_Witness ==
    /\ V2(1) /\ V2(2) /\ Succeeded(1) /\ Succeeded(2)
    /\ outdir[1] # outdir[2]
    /\ ckpt[1] # ckpt[2] /\ ~SameBindings(ckpt[1], ckpt[2])
    /\ files["d1"]["actor_weights.json"] # files["d2"]["actor_weights.json"]
    /\ files["d1"]["model_info.json"] # <<>> /\ files["d2"]["model_info.json"] # <<>>

\* C10: two runs of convert_weights_v2 on the same checkpoint end the same way
\* and leave identical documents, whatever the random draws of their tests.
C10_Deterministic ==
    /\ V2(1) /\ V2(2) /\ Terminal(1) /\ Terminal(2)
    /\ outdir[1] # outdir[2]
    /\ ckpt[1] = ckpt[2]
    => /\ files["d1"] = files["d2"]
       /\ err[1] = err[2]

\* Two runs of main() on the same checkpoint drew differently (they printed
\* different sampled actions) and have both written their documents.
C10_Witness ==
    /\ entry[1] = "v2_main" /\ entry[2] = "v2_main"
    /\ pc[1] = "done" /\ pc[2] = "done"
    /\ outdir[1] # outdir[2]
    /\ ckpt[1] = ckpt[2]
    /\ sampled[1] # sampled[2]
    /\ files["d1"]["actor_weights.json"] # <<>>
    /\ files["d1"] = files["d2"]

\* The widths of a written network: rows and columns of dense_1_kernel, columns
\* of dense_2_kernel, columns of output_kernel.
LayerWidths(doc) ==
    <<doc[1][2].shape[1], doc[1][2].shape[2], doc[3][2].shape[2], doc[5][2].shape[2]>>
AllKernels2D(doc) == \A l \in {1, 3, 5} : Len(doc[l][2].shape) = 2

\* C11: after a successful run of extract_weights_to_json (here under main(),
\* on a checkpoint whose shapes chain), actor_layers and critic_layers of model_info.json are the widths of the
\* kernels written in the same run, and input_dim, hidden_dim and action_dim
\* are the corresponding widths.
C11_InfoAgreesWithWeights ==
    \A p \in Procs :
        /\ entry[p] = "v2_main" /\ pc[p] = "done" /\ err[p].kind = "none"
        /\ ShapesOk(ckpt[p])
        =>  LET a == Out(p)["actor_weights.json"]
                c == Out(p)["critic_weights.json"]
                info == Out(p)["model_info.json"]
            IN  /\ AllKernels2D(a) /\ AllKernels2D(c)
                /\ info[6] = <<"actor_layers", LayerWidths(a)>>
                /\ info[7] = <<"critic_layers", LayerWidths(c)>>
                /\ info[1] = <<"input_dim", LayerWidths(a)[1]>>
                /\ info[3] = <<"hidden_dim", LayerWidths(a)[2]>>
                /\ info[2] = <<"action_dim", LayerWidths(a)[4]>>

V2MainOrder ==
    {<<"load", "test">>, <<"load", "except">>, <<"test", "x_actor">>,
     <<"test", "except">>, <<"x_actor", "x_critic">>, <<"x_actor", "except">>,
     <<"x_critic", "x_logstd">>, <<"x_critic", "except">>,
     <<"x_logstd", "x_info">>, <<"x_logstd", "except">>,
     <<"x_info", "report">>, <<"report", "done">>, <<"except", "done">>}
OutputFiles == {"actor_weights.json", "critic_weights.json",
                "actor_logstd.json", "model_info.json"}

\* C12: in every run of main() of convert_weights_v2 the steps go load, test,
\* extract; a file is written only after test_weights has completed without
\* error (it has printed its sampled action); the success message is printed
\* only when all four files are written; and a run that met an error ends,
\* returning normally, with the failure message alone, a run that met none
\* with the success message alone.
C12_MainOrder ==
    /\ [](\A p \in Procs :
            entry[p] = "v2_main" =>
                /\ Out(p) # EmptyDir =>
                       /\ Len(sampled[p].shape) = 2
                       /\ pc[p] \in {"x_critic", "x_logstd", "x_info", "report", "done"}
                /\ \A i \in 1..Len(msgs[p]) :
                       msgs[p][i] = "success" =>
                           \A n \in OutputFiles : Out(p)[n] # <<>>
                /\ pc[p] = "done" =>
                       msgs[p] = IF err[p].kind = "none" THEN <<"success">>
                                 ELSE <<"failed">>
                /\ err[p].kind # "none" => pc[p] \in {"except", "done"}
                /\ pc[p] # "raised")
    /\ [][\A p \in Procs :
            entry[p] = "v2_main" /\ pc'[p] # pc[p] => <<pc[p], pc'[p]>> \in V2MainOrder]_vars

\* A run of main() has ended with the success message after writing all four
\* files, having printed a sampled action in its test.
C12_Witness ==
    /\ entry[1] = "v2_main" /\ pc[1] = "done"
    /\ msgs[1] = <<"success">>
    /\ Len(sampled[1].shape) = 2
    /\ \A n \in OutputFiles : Out(1)[n] # <<>>
====
